---- MODULE Spec2Model ----
(***************************************************************************)
(* Model of app.py, the used-car price predictor.                          *)
(*                                                                         *)
(* The script is re-run top to bottom on every interaction.  What survives *)
(* a run is the resource cache (load_resources), the exchange-rate cache   *)
(* (get_exchange_rates, ttl 3600 s) and the widget state; everything else  *)
(* is recomputed by the run.                                               *)
(*                                                                         *)
(* Two specifications:                                                     *)
(*   SpecAssemble  the record assembly (lines 541-563) and the             *)
(*                 transmission reverse lookup (lines 508-516) applied to  *)
(*                 freely drawn inputs;                                    *)
(*   Spec          the whole script, one action per kind of interaction.   *)
(*                                                                         *)
(* Values.  A Python value is a record [k, n, s]: k = "num" (n an integer; *)
(* fields with one decimal, such as engine_displacement, are kept in       *)
(* tenths), k = "str" (s the text), k = "nan" (np.nan).                    *)
(***************************************************************************)
EXTENDS Integers, Sequences, FiniteSets, TLC

Num(n) == [k |-> "num", n |-> n, s |-> ""]
Str(s) == [k |-> "str", n |-> 0, s |-> s]
NaN == [k |-> "nan", n |-> 0, s |-> ""]

\* pd.isna(item) for a scalar
IsNa(v) == v.k = "nan"

\* ------------------------------------------------------------------------
\* Text to number: pd.to_numeric on a scalar.
\* ------------------------------------------------------------------------

\* The characters of each text the model feeds to pd.to_numeric.
Spelling(s) ==
    CASE s = "12" -> <<"1", "2">>
      [] s = "-7" -> <<"-", "7">>
      [] s = "abc" -> <<"a", "b", "c">>
      [] s = "1x" -> <<"1", "x">>
      [] s = "" -> <<>>
      [] s = "Unknown" -> <<"U", "n", "k", "n", "o", "w", "n">>

Digits == {"0", "1", "2", "3", "4", "5", "6", "7", "8", "9"}

DigitValue(c) ==
    CASE c = "0" -> 0 [] c = "1" -> 1 [] c = "2" -> 2 [] c = "3" -> 3
      [] c = "4" -> 4 [] c = "5" -> 5 [] c = "6" -> 6 [] c = "7" -> 7
      [] c = "8" -> 8 [] c = "9" -> 9

DigitChar(d) ==
    CASE d = 0 -> "0" [] d = 1 -> "1" [] d = 2 -> "2" [] d = 3 -> "3"
      [] d = 4 -> "4" [] d = 5 -> "5" [] d = 6 -> "6" [] d = 7 -> "7"
      [] d = 8 -> "8" [] d = 9 -> "9"

\* The decimal digits of a natural number, most significant first.
RECURSIVE DecimalDigits(_)
DecimalDigits(n) ==
    IF n < 10 THEN <<DigitChar(n)>>
    ELSE Append(DecimalDigits(n \div 10), DigitChar(n % 10))

AllDigits(cs) == Len(cs) > 0 /\ \A i \in 1..Len(cs) : cs[i] \in Digits

\* An optionally signed run of decimal digits.
IsDecimalText(cs) ==
    /\ Len(cs) > 0
    /\ IF cs[1] = "-" THEN AllDigits(Tail(cs)) ELSE AllDigits(cs)

RECURSIVE ParseDigits(_, _)
ParseDigits(cs, acc) ==
    IF cs = <<>> THEN acc
    ELSE ParseDigits(Tail(cs), 10 * acc + DigitValue(Head(cs)))

ParseDecimal(cs) ==
    IF cs[1] = "-" THEN 0 - ParseDigits(Tail(cs), 0) ELSE ParseDigits(cs, 0)

\* pd.to_numeric(value, errors=...) on a scalar: a number (np.nan included)
\* is returned as it is, a text is parsed; a text that is no number is NaN
\* under errors='coerce' and a ValueError under errors='raise'.
\* The result is [ok, v]: ok = FALSE stands for the raised exception.
to_numeric_raise(value, errors) ==
    IF value.k \in {"num", "nan"} THEN [ok |-> TRUE, v |-> value]
    ELSE IF IsDecimalText(Spelling(value.s))
         THEN [ok |-> TRUE, v |-> Num(ParseDecimal(Spelling(value.s)))]
         ELSE [ok |-> FALSE, v |-> NaN]

to_numeric(value, errors) ==
    IF value.k \in {"num", "nan"} THEN [ok |-> TRUE, v |-> value]
    ELSE IF IsDecimalText(Spelling(value.s))
         THEN [ok |-> TRUE, v |-> Num(ParseDecimal(Spelling(value.s)))]
         ELSE IF errors = "coerce" THEN [ok |-> TRUE, v |-> NaN]
              ELSE [ok |-> FALSE, v |-> NaN]

\* ------------------------------------------------------------------------
\* Option catalogs (lines 238-289).
\* ------------------------------------------------------------------------

SeqRange(q) == {q[i] : i \in 1..Len(q)}

\* The text made of the characters cs.
RECURSIVE Join(_)
Join(cs) == IF cs = <<>> THEN "" ELSE Head(cs) \o Join(Tail(cs))

\* str(item): a text is itself, an integer its decimal digits, np.nan "nan".
PyStr(v) ==
    CASE v.k = "str" -> v.s
      [] v.k = "num" ->
            IF v.n < 0 THEN "-" \o Join(DecimalDigits(0 - v.n))
            ELSE Join(DecimalDigits(v.n))
      [] v.k = "nan" -> "nan"

\* options_str of prepare_options, as the set handed to set(): every null
\* entry replaced by nan_replacement, every other entry converted to text.
options_str(raw_list, nan_replacement) ==
    {IF IsNa(raw_list[i]) THEN nan_replacement ELSE PyStr(raw_list[i]) :
        i \in 1..Len(raw_list)}

body_type_opts_raw ==
    <<Str("Pickup Truck"), Str("Sedan"), Str("SUV / Crossover"), Str("Van"),
      Str("Hatchback"), Str("Coupe"), Str("Minivan"), Str("Convertible"),
      Str("Wagon"), NaN>>

engine_cylinders_opts_raw ==
    <<Str("V8"), Str("I4"), Str("V6 Hybrid"), Str("V6"),
      Str("V6 Flex Fuel Vehicle"), Str("I3"), Str("H4"),
      Str("V8 Flex Fuel Vehicle"), NaN, Str("I4 Flex Fuel Vehicle"),
      Str("I6 Diesel"), Str("I4 Hybrid"), Str("I6"), Str("I4 Diesel"),
      Str("V8 Biodiesel"), Str("V6 Biodiesel"), Str("V8 Diesel"),
      Str("V6 Diesel"), Str("I5"), Str("H6"), Str("V10"), Str("W12"),
      Str("V12"), Str("I4 Compressed Natural Gas"), Str("I2"),
      Str("V8 Hybrid"), Str("V8 Compressed Natural Gas"), Str("I5 Diesel"),
      Str("H4 Hybrid"), Str("I5 Biodiesel"), Str("W12 Flex Fuel Vehicle"),
      Str("R2"), Str("I6 Hybrid"), Str("V8 Propane"),
      Str("V6 Compressed Natural Gas"), Str("V10 Diesel"), Str("W8"),
      Str("I3 Hybrid")>>

engine_type_opts_raw == engine_cylinders_opts_raw

fuel_type_opts_raw ==
    <<Str("Gasoline"), Str("Hybrid"), Str("Flex Fuel Vehicle"), NaN,
      Str("Diesel"), Str("Electric"), Str("Biodiesel"),
      Str("Compressed Natural Gas"), Str("Propane")>>

listing_color_opts_raw ==
    <<Str("SILVER"), Str("GRAY"), Str("WHITE"), Str("BLACK"), Str("BLUE"),
      Str("RED"), Str("UNKNOWN"), Str("GREEN"), Str("YELLOW"), Str("BROWN"),
      Str("GOLD"), Str("TEAL"), Str("ORANGE"), Str("PURPLE"), Str("PINK")>>

transmission_opts_raw ==
    <<Str("A"), Str("CVT"), Str("M"), NaN, Str("Dual Clutch")>>

wheel_system_opts_raw ==
    <<Str("4WD"), Str("FWD"), Str("AWD"), NaN, Str("RWD"), Str("4X2")>>

body_type_options == options_str(body_type_opts_raw, "Unknown")
engine_cylinders_options == options_str(engine_cylinders_opts_raw, "Unknown")
engine_type_options == options_str(engine_type_opts_raw, "Unknown")
fuel_type_options == options_str(fuel_type_opts_raw, "Unknown")
listing_color_options == options_str(listing_color_opts_raw, "UNKNOWN")
wheel_system_options == options_str(wheel_system_opts_raw, "Unknown")
prepared_trans_opts == options_str(transmission_opts_raw, "Unknown")

\* The dict literal of line 261, in declaration order: <<code, label>>.
transmission_options_map ==
    <<<<"A", "Automatic">>, <<"M", "Manual">>, <<"CVT", "CVT">>,
      <<"Dual Clutch", "Dual Clutch">>, <<"Unknown", "Unknown">>>>

\* transmission_options_map.get(opt, opt)
TransGet(opt) ==
    IF \E i \in 1..Len(transmission_options_map) :
            transmission_options_map[i][1] = opt
    THEN LET i == CHOOSE j \in 1..Len(transmission_options_map) :
                      transmission_options_map[j][1] = opt
         IN transmission_options_map[i][2]
    ELSE opt

display_trans_opts == {TransGet(opt) : opt \in prepared_trans_opts}

numerical_cols ==
    {"back_legroom", "city_fuel_economy", "daysonmarket",
     "engine_displacement", "fleet", "frame_damaged", "franchise_dealer",
     "front_legroom", "fuel_tank_volume", "has_accidents", "height",
     "highway_fuel_economy", "horsepower", "isCab", "is_new", "length",
     "maximum_seating", "mileage", "owner_count", "salvage",
     "savings_amount", "seller_rating", "theft_title", "wheelbase", "width",
     "car_age"}

\* The options each selectbox offers, by column.
categorical_widget_map ==
    [c \in {"body_type", "engine_cylinders", "engine_type", "fuel_type",
            "listing_color", "transmission", "wheel_system"} |->
        CASE c = "body_type" -> body_type_options
          [] c = "engine_cylinders" -> engine_cylinders_options
          [] c = "engine_type" -> engine_type_options
          [] c = "fuel_type" -> fuel_type_options
          [] c = "listing_color" -> listing_color_options
          [] c = "transmission" -> display_trans_opts
          [] c = "wheel_system" -> wheel_system_options]

boolean_flags ==
    {"fleet", "frame_damaged", "franchise_dealer", "has_accidents", "isCab",
     "is_new", "salvage", "theft_title"}

\* The reverse lookup of lines 511-515: the first code, in declaration
\* order, whose label is the selected one; the label itself if there is none.
RECURSIVE ReverseFrom(_, _)
ReverseFrom(i, selected_display_trans) ==
    IF i > Len(transmission_options_map) THEN selected_display_trans
    ELSE IF transmission_options_map[i][2] = selected_display_trans
         THEN transmission_options_map[i][1]
         ELSE ReverseFrom(i + 1, selected_display_trans)

OriginalTransValue_noDefault(selected_display_trans) ==
    LET r == ReverseFrom(1, selected_display_trans)
    IN IF \E i \in 1..Len(transmission_options_map) :
              transmission_options_map[i][2] = selected_display_trans
       THEN r ELSE "Unknown"

OriginalTransValue(selected_display_trans) ==
    ReverseFrom(1, selected_display_trans)

\* ------------------------------------------------------------------------
\* State.
\* ------------------------------------------------------------------------

VARIABLES
    files,                      \* the three artifacts on disk: status, content
    resource_cache,             \* load_resources has a cached return value
    resources,                  \* which of the three globals are not None
    original_feature_columns,   \* the loaded schema (a sequence), <<>> if None
    load_calls,                 \* executions of the body of load_resources
    load_errors,                \* st.error calls made by load_resources
    rate_cache,                 \* st.cache_data entry of get_exchange_rates
    fetch_log,                  \* every requests.get so far: when, outcome
    now,                        \* seconds since the process started
    form_state,                 \* what each form widget currently holds
    selected_currency,          \* what the currency selectbox holds
    page,                       \* parts of the page the last run rendered
    messages,                   \* st.error/warning/info of the last run
    valid_inputs,               \* valid_inputs at the end of the last run
    predict_enabled,            \* the Predict button was rendered enabled
    exchange_rates,             \* the table read at line 349
    calls,                      \* external calls made by the last run
    run,                        \* click and external outcomes of the last run
    final_price_usd,            \* cents
    final_price,                \* 1/10000 of the currency unit
    price_shown,                \* the price card was rendered
    formatted_price,            \* the characters of formatted_price
    session_state,              \* st.session_state: key -> value
    raw_list,                   \* prepare_options: its arguments ...
    nan_replacement,
    sort,
    unique_sorted_options,      \* ... and what it returned
    input_values_from_widgets,  \* column -> collected value (a function)
    input_df_data_final,        \* the assembled dict: <<[col, val], ...>>
    input_df,                   \* the one-row frame: <<[col, val], ...>>
    warnings,                   \* columns warned about by the assembly loop
    fault,                      \* an exception left the script unhandled
    selected_display_trans,     \* label chosen in the transmission selectbox
    original_trans_value,       \* its internal code after the reverse lookup
    pc                          \* what the last step was

asmVars ==
    <<original_feature_columns, input_values_from_widgets,
      input_df_data_final, input_df, warnings, fault,
      selected_display_trans, original_trans_value, pc>>

optVars == <<raw_list, nan_replacement, sort, unique_sorted_options>>

\* prepare_options has not been called.
OptIdle ==
    /\ raw_list = <<>>
    /\ nan_replacement = ""
    /\ sort = TRUE
    /\ unique_sorted_options = <<>>

appVars ==
    <<files, resource_cache, resources, load_calls, load_errors, rate_cache,
      fetch_log, now, form_state, selected_currency, page, messages, valid_inputs,
      predict_enabled, exchange_rates, calls, run, final_price_usd,
      final_price, price_shown, formatted_price, session_state, optVars>>

vars == <<asmVars, appVars>>

NoCalls == [transform |-> 0, predict |-> 0, fetch |-> 0]
NoRates == <<>>
NotAsked == [kind |-> "not_asked", result |-> "missing", has_rates |-> FALSE, rates |-> NoRates]
NoRun == [click |-> "none", transform |-> "not_called", predict |-> "not_called",
          asked |-> NotAsked]
EmptyRateCache == [set |-> FALSE, table |-> NoRates, at |-> 0]

\* The script outside the assembly: nothing has run.
AppIdle ==
    /\ files = [model |-> "ok", preprocessor |-> "ok", columns |-> "ok",
                cols |-> <<>>]
    /\ resource_cache = FALSE
    /\ resources = [model |-> TRUE, preprocessor |-> TRUE, columns |-> TRUE]
    /\ load_calls = 0
    /\ load_errors = 0
    /\ rate_cache = EmptyRateCache
    /\ fetch_log = <<>>
    /\ now = 0
    /\ form_state = <<>>
    /\ selected_currency = "USD"
    /\ page = {}
    /\ messages = <<>>
    /\ valid_inputs = TRUE
    /\ predict_enabled = FALSE
    /\ exchange_rates = NoRates
    /\ calls = NoCalls
    /\ run = NoRun
    /\ final_price_usd = 0
    /\ final_price = 0
    /\ price_shown = FALSE
    /\ formatted_price = <<>>
    /\ session_state = <<>>
    /\ OptIdle

\* ------------------------------------------------------------------------
\* Record assembly (lines 541-554) and the frame (lines 556-563).
\* ------------------------------------------------------------------------

\* d[key] = val on a dict kept in insertion order.
DictSet(d, key, val) ==
    IF \E i \in 1..Len(d) : d[i].col = key
    THEN [i \in 1..Len(d) |->
            IF d[i].col = key THEN [col |-> key, val |-> val] ELSE d[i]]
    ELSE Append(d, [col |-> key, val |-> val])

\* d.get(key, default)
DictGet(d, key, default) ==
    IF \E i \in 1..Len(d) : d[i].col = key
    THEN d[CHOOSE i \in 1..Len(d) : d[i].col = key].val
    ELSE default

Keys(d) == [i \in 1..Len(d) |-> d[i].col]

IsNumericCol(col_name) ==
    col_name \notin DOMAIN categorical_widget_map /\ col_name \notin boolean_flags

\* One pass of the loop body (lines 543-554) for col_name.  acc is
\* [data, warned, raised]; once an exception is raised the loop is left.
AssembleStep_skipMissing(acc, col_name, widgets) ==
    IF acc.raised THEN acc
    ELSE IF col_name \in DOMAIN widgets
    THEN LET value == widgets[col_name]
         IN IF IsNumericCol(col_name)
            THEN LET r == to_numeric(value, "coerce")
                 IN IF r.ok
                    THEN [acc EXCEPT !.data = DictSet(@, col_name, r.v)]
                    ELSE [acc EXCEPT !.raised = TRUE]
            ELSE [acc EXCEPT !.data = DictSet(@, col_name, value)]
    ELSE [acc EXCEPT !.warned = Append(@, col_name)]

AssembleStep(acc, col_name, widgets) ==
    IF acc.raised THEN acc
    ELSE IF col_name \in DOMAIN widgets
    THEN LET value == widgets[col_name]
         IN IF IsNumericCol(col_name)
            THEN LET r == to_numeric(value, "coerce")
                 IN IF r.ok
                    THEN [acc EXCEPT !.data = DictSet(@, col_name, r.v)]
                    ELSE [acc EXCEPT !.raised = TRUE]
            ELSE [acc EXCEPT !.data = DictSet(@, col_name, value)]
    ELSE IF IsNumericCol(col_name)
         THEN [acc EXCEPT !.warned = Append(@, col_name),
                          !.data = DictSet(@, col_name, NaN)]
         ELSE [acc EXCEPT !.warned = Append(@, col_name),
                          !.data = DictSet(@, col_name, Str("Unknown"))]

\* for col_name in original_feature_columns: ...
RECURSIVE AssembleFrom(_, _, _, _)
AssembleFrom(i, cols, widgets, acc) ==
    IF i > Len(cols) THEN acc
    ELSE AssembleFrom(i + 1, cols, widgets, AssembleStep(acc, cols[i], widgets))

AssembleLoop(cols, widgets) ==
    AssembleFrom(1, cols, widgets,
                 [data |-> <<>>, warned |-> <<>>, raised |-> FALSE])

\* pd.DataFrame([data], columns=cols): one cell per entry of cols, in that
\* order, holding the dict's value for the column (NaN if it has none).
DataFrame(data, cols) ==
    [i \in 1..Len(cols) |-> [col |-> cols[i], val |-> DictGet(data, cols[i], NaN)]]

\* Lines 557-563: every column of the frame that numerical_cols names and
\* whose cell is neither None nor NaN is passed through pd.to_numeric again.
Recoerce(frame) ==
    [i \in 1..Len(frame) |->
        IF frame[i].col \in numerical_cols /\ ~IsNa(frame[i].val)
        THEN [col |-> frame[i].col, val |-> to_numeric(frame[i].val, "coerce").v]
        ELSE frame[i]]

\* ------------------------------------------------------------------------
\* SpecAssemble: the assembly and the reverse lookup on drawn inputs.
\* ------------------------------------------------------------------------

MaxSchemaLen == 3

\* Columns a drawn schema is made of: two validated numeric fields, a numeric
\* field without validation, a flag, three selectboxes, and a column the
\* script has no widget for.
SchemaCols ==
    {"horsepower", "engine_displacement", "car_age", "fleet", "body_type",
     "listing_color", "transmission", "make_name"}

\* The duplicate-free sequences over S of length at most n (a schema is the
\* column index of the training table).
RECURSIVE SeqsNoDup(_, _)
SeqsNoDup(S, n) ==
    IF n = 0 THEN {<<>>}
    ELSE LET shorter == SeqsNoDup(S, n - 1)
         IN shorter \cup
            UNION {{Append(q, c) : c \in S \ SeqRange(q)} :
                   q \in {r \in shorter : Len(r) = n - 1}}

Schemas == SeqsNoDup(SchemaCols, MaxSchemaLen)

\* Values a caller may hand over for a column: anything for a numeric or
\* unknown column, 0/1 for a flag, an option of the selectbox (the internal
\* code for transmission) for a categorical one.
NumericSamples == {Num(200), Str("12"), Str("-7"), Str("abc")}

SampleValues(col_name) ==
    CASE col_name = "fleet" -> {Num(0), Num(1)}
      [] col_name = "body_type" -> {Str("Sedan"), Str("Unknown")}
      [] col_name = "listing_color" -> {Str("RED"), Str("UNKNOWN")}
      [] col_name = "transmission" ->
            {Str(OriginalTransValue(l)) : l \in {"Automatic", "Unknown"}}
      [] OTHER -> NumericSamples

\* Every mapping from a subset of the schema's columns to sample values.
CollectedOver(cols) ==
    UNION {{f \in [D -> UNION {SampleValues(c) : c \in D}] :
                \A c \in D : f[c] \in SampleValues(c)} :
           D \in SUBSET SeqRange(cols)}

TransLabels == display_trans_opts \cup {"A", "Semi-Auto"}

InitAssemble ==
    /\ original_feature_columns \in Schemas
    /\ input_values_from_widgets = <<>>
    /\ input_df_data_final = <<>>
    /\ input_df = <<>>
    /\ warnings = <<>>
    /\ fault = FALSE
    /\ selected_display_trans = ""
    /\ original_trans_value = ""
    /\ pc = "start"
    /\ AppIdle

\* Lines 541-563 on a drawn collected mapping.
Assemble ==
    /\ pc = "start"
    /\ \E widgets \in CollectedOver(original_feature_columns) :
          LET r == AssembleLoop(original_feature_columns, widgets)
          IN /\ input_values_from_widgets' = widgets
             /\ input_df_data_final' = r.data
             /\ warnings' = r.warned
             /\ fault' = r.raised
             /\ input_df' = IF r.raised THEN <<>>
                            ELSE Recoerce(DataFrame(r.data, original_feature_columns))
    /\ pc' = "assembled"
    /\ UNCHANGED <<original_feature_columns, selected_display_trans,
                   original_trans_value>>
    /\ UNCHANGED appVars

\* Lines 509-516 on a drawn label.
Lookup ==
    /\ pc = "start"
    /\ \E label \in TransLabels :
          /\ selected_display_trans' = label
          /\ original_trans_value' = OriginalTransValue(label)
    /\ pc' = "looked"
    /\ UNCHANGED <<original_feature_columns, input_values_from_widgets,
                   input_df_data_final, input_df, warnings, fault>>
    /\ UNCHANGED appVars

NextAssemble == Assemble \/ Lookup

SpecAssemble == InitAssemble /\ [][NextAssemble]_vars

\* ------------------------------------------------------------------------
\* Claims settled under SpecAssemble.
\* ------------------------------------------------------------------------

Uncollected == SeqRange(original_feature_columns) \ DOMAIN input_values_from_widgets

Count(q, x) == Cardinality({i \in 1..Len(q) : q[i] = x})

\* C1: the assembled record has exactly the schema's columns as keys, in
\* schema order, none omitted, added or duplicated, whichever subset of the
\* columns was collected; the frame built from it has the same columns.
C1_KeysAreSchema ==
    pc = "assembled" =>
        /\ Keys(input_df_data_final) = original_feature_columns
        /\ ~fault => Keys(input_df) = original_feature_columns

C1_Witness ==
    /\ pc = "assembled"
    /\ Len(original_feature_columns) = MaxSchemaLen
    /\ Uncollected # {}
    /\ DOMAIN input_values_from_widgets # {}
    /\ Keys(input_df_data_final) = original_feature_columns

Domain(col_name) ==
    IF col_name = "transmission" THEN prepared_trans_opts
    ELSE categorical_widget_map[col_name]

C4_CollectedCoerced ==
    pc = "assembled" =>
        /\ ~fault
        /\ \A c \in DOMAIN input_values_from_widgets :
              LET given == input_values_from_widgets[c]
                  placed == DictGet(input_df_data_final, c, Str("absent"))
              IN IF ~IsNumericCol(c) THEN placed = given
                 ELSE /\ placed.k \in {"num", "nan"}
                      /\ given.k = "num" => placed = given
                      /\ given = Str("12") => placed = Num(12)
                      /\ given = Str("-7") => placed = Num(0 - 7)
                      /\ given = Str("abc") => placed = NaN

C4_Witness ==
    /\ pc = "assembled"
    /\ ~fault
    /\ \E c \in DOMAIN input_values_from_widgets :
          /\ IsNumericCol(c)
          /\ input_values_from_widgets[c] = Str("abc")
          /\ DictGet(input_df_data_final, c, Str("absent")) = NaN
    /\ \E c \in DOMAIN input_values_from_widgets :
          /\ ~IsNumericCol(c)
          /\ DictGet(input_df_data_final, c, Str("absent")) =
                input_values_from_widgets[c]

\* C5: a label that is a value of the transmission display map is replaced
\* by the first code, in declaration order, mapped to it; any other label is
\* kept as it is.
MapLabels == {transmission_options_map[i][2] : i \in 1..Len(transmission_options_map)}

C5_ReverseLookup ==
    pc = "looked" =>
        IF selected_display_trans \in MapLabels
        THEN \E i \in 1..Len(transmission_options_map) :
                /\ transmission_options_map[i] =
                      <<original_trans_value, selected_display_trans>>
                /\ \A j \in 1..(i - 1) :
                      transmission_options_map[j][2] # selected_display_trans
        ELSE original_trans_value = selected_display_trans

C5_Witness ==
    /\ pc = "looked"
    /\ selected_display_trans = "Automatic"
    /\ original_trans_value = "A"

\* ------------------------------------------------------------------------
\* prepare_options (lines 238-245) as a function, and SpecOptions, which
\* applies it to drawn lists.
\* ------------------------------------------------------------------------

\* The characters the option texts are made of, in code-point order.
Ascii ==
    " -/0123456789ABCDEFGHIJKLMNOPQRSTUVWXYZabcdefghijklmnopqrstuvwxyz"

ord(c) == CHOOSE i \in 1..Len(Ascii) : SubSeq(Ascii, i, i) = c

\* a < b on Python str: the first differing character decides, a proper
\* prefix comes first.
RECURSIVE StrLessFrom(_, _, _)
StrLessFrom(a, b, i) ==
    IF i > Len(b) THEN FALSE
    ELSE IF i > Len(a) THEN TRUE
    ELSE LET ca == ord(SubSeq(a, i, i))
             cb == ord(SubSeq(b, i, i))
         IN IF ca < cb THEN TRUE
            ELSE IF ca > cb THEN FALSE
            ELSE StrLessFrom(a, b, i + 1)

StrLess(a, b) == StrLessFrom(a, b, 1)

\* sorted(list(S)) for a set S of texts.
RECURSIVE sorted(_)
sorted(S) ==
    IF S = {} THEN <<>>
    ELSE LET least == CHOOSE x \in S : \A y \in S \ {x} : StrLess(x, y)
         IN <<least>> \o sorted(S \ {least})

\* list(S): the elements of a set in an order the language does not fix.
ListsOf(S) == {q \in SeqsNoDup(S, Cardinality(S)) : Len(q) = Cardinality(S)}

\* The values prepare_options may return: one when sort is set, any order
\* of the unique texts otherwise.
prepare_options_keepNull(raw, replacement, sorting) ==
    LET texts == {PyStr(raw[i]) : i \in 1..Len(raw)}
    IN IF sorting THEN {sorted(texts)} ELSE ListsOf(texts)

prepare_options(raw, replacement, sorting) ==
    IF sorting THEN {sorted(options_str(raw, replacement))}
    ELSE ListsOf(options_str(raw, replacement))

MaxListLen == 3

\* Entries of a drawn raw list: np.nan, texts (the sentinel among them, and
\* one a proper prefix of another), and a number whose text is also drawn.
RawItems ==
    {NaN, Str("V6"), Str("V6 Hybrid"), Str("I4"), Str("Unknown"), Str("4"),
     Num(4)}

RECURSIVE SeqsUpTo(_, _)
SeqsUpTo(S, n) ==
    IF n = 0 THEN {<<>>}
    ELSE LET shorter == SeqsUpTo(S, n - 1)
         IN shorter \cup
            {Append(q, x) : q \in {r \in shorter : Len(r) = n - 1}, x \in S}

RawLists == SeqsUpTo(RawItems, MaxListLen)

InitOptions ==
    /\ original_feature_columns = <<>>
    /\ input_values_from_widgets = <<>>
    /\ input_df_data_final = <<>>
    /\ input_df = <<>>
    /\ warnings = <<>>
    /\ fault = FALSE
    /\ selected_display_trans = ""
    /\ original_trans_value = ""
    /\ pc = "start"
    /\ AppIdle

\* One call of prepare_options on a drawn list.
Prepare ==
    /\ pc = "start"
    /\ \E raw \in RawLists :
       \E replacement \in {"Unknown", "UNKNOWN"} :
       \E sorting \in BOOLEAN :
       \E out \in prepare_options(raw, replacement, sorting) :
          /\ raw_list' = raw
          /\ nan_replacement' = replacement
          /\ sort' = sorting
          /\ unique_sorted_options' = out
    /\ pc' = "prepared"
    /\ UNCHANGED <<files, resource_cache, resources, load_calls, load_errors,
                   rate_cache, fetch_log, now, form_state, selected_currency,
                   page,
                   messages, valid_inputs, predict_enabled, exchange_rates,
                   calls, run, final_price_usd, final_price, price_shown,
                   formatted_price, session_state>>
    /\ UNCHANGED <<original_feature_columns, input_values_from_widgets,
                   input_df_data_final, input_df, warnings, fault,
                   selected_display_trans, original_trans_value>>

NextOptions == Prepare

SpecOptions == InitOptions /\ [][NextOptions]_vars

\* ------------------------------------------------------------------------
\* Claims settled under SpecOptions.
\* ------------------------------------------------------------------------

HasNull == \E i \in 1..Len(raw_list) : IsNa(raw_list[i])

\* C13: the output of prepare_options with sorting on holds the text of
\* every non-null entry and the sentinel for the null ones and nothing else,
\* is strictly ascending (so sorted and duplicate-free), holds the sentinel
\* exactly once when the input held a null, and is empty for an empty input.
C13_NormalizeAndSort ==
    (pc = "prepared" /\ sort) =>
        LET out == unique_sorted_options
        IN /\ \A i \in 1..Len(raw_list) :
                 IF IsNa(raw_list[i]) THEN nan_replacement \in SeqRange(out)
                 ELSE PyStr(raw_list[i]) \in SeqRange(out)
           /\ \A j \in 1..Len(out) :
                 \E i \in 1..Len(raw_list) :
                    out[j] = IF IsNa(raw_list[i]) THEN nan_replacement
                             ELSE PyStr(raw_list[i])
           /\ \A j \in 1..Len(out) : out[j] # "nan"
           /\ \A i \in 1..Len(out) : \A j \in 1..Len(out) :
                 i < j => StrLess(out[i], out[j])
           /\ HasNull => Count(out, nan_replacement) = 1
           /\ raw_list = <<>> => out = <<>>

\* A list with a null, a repeated text and a number whose text is also an
\* entry has been normalised.
C13_Witness ==
    /\ pc = "prepared"
    /\ sort
    /\ raw_list = <<Num(4), NaN, Str("4")>>
    /\ nan_replacement = "Unknown"
    /\ unique_sorted_options = <<"4", "Unknown">>

\* ------------------------------------------------------------------------
\* load_resources (lines 17-33), behind st.cache_resource.
\* ------------------------------------------------------------------------

\* The body: the three joblib.load calls in order; the first one that fails
\* (a missing file, or any other exception) ends it with one st.error and
\* (None, None, None).  f is the state of the three files.
load_resources_partial(f) ==
    [model |-> f.model = "ok",
     preprocessor |-> f.model = "ok" /\ f.preprocessor = "ok",
     columns |-> f.model = "ok" /\ f.preprocessor = "ok" /\ f.columns = "ok",
     cols |-> IF f.model = "ok" /\ f.preprocessor = "ok" /\ f.columns = "ok"
              THEN f.cols ELSE <<>>,
     errors |-> IF f.model = "ok" /\ f.preprocessor = "ok" /\ f.columns = "ok"
                THEN 0 ELSE 1]

load_resources(f) ==
    IF f.model = "ok" /\ f.preprocessor = "ok" /\ f.columns = "ok"
    THEN [model |-> TRUE, preprocessor |-> TRUE, columns |-> TRUE,
          cols |-> f.cols, errors |-> 0]
    ELSE [model |-> FALSE, preprocessor |-> FALSE, columns |-> FALSE,
          cols |-> <<>>, errors |-> 1]

\* ------------------------------------------------------------------------
\* get_exchange_rates (lines 36-53), behind st.cache_data(ttl=3600).
\* Rates are kept in hundredths.
\* ------------------------------------------------------------------------

ttl == 3600

FallbackRates ==
    ("USD" :> 100) @@ ("EUR" :> 85) @@ ("GBP" :> 75) @@ ("JPY" :> 11000) @@
    ("CAD" :> 125) @@ ("AUD" :> 135) @@ ("EGP" :> 5000)

\* rates["EGP"] = 50 when the response has no EGP.
WithEGP(rates) ==
    IF "EGP" \notin DOMAIN rates THEN rates @@ ("EGP" :> 5000) ELSE rates

\* The body on a response [kind, result, has_rates, rates]: kind is
\* "network_error" (requests.get raises), "bad_json" (response.json()
\* raises) or "json"; result is data["result"] or "missing"; has_rates
\* tells whether data has "rates".  Returns [table, raised].
get_exchange_rates_narrow(response) ==
    IF response.kind = "network_error"
    THEN [table |-> FallbackRates, raised |-> FALSE]
    ELSE IF response.kind # "json" \/ response.result = "missing"
    THEN [table |-> NoRates, raised |-> TRUE]
    ELSE IF response.result = "success"
    THEN IF response.has_rates
         THEN [table |-> WithEGP(response.rates), raised |-> FALSE]
         ELSE [table |-> NoRates, raised |-> TRUE]
    ELSE [table |-> FallbackRates, raised |-> FALSE]

get_exchange_rates(response) ==
    IF response.kind # "json"
    THEN [table |-> FallbackRates, raised |-> FALSE]
    ELSE IF response.result = "missing"
    THEN [table |-> FallbackRates, raised |-> FALSE]
    ELSE IF response.result = "success"
    THEN IF response.has_rates
         THEN [table |-> WithEGP(response.rates), raised |-> FALSE]
         ELSE [table |-> FallbackRates, raised |-> FALSE]
    ELSE [table |-> FallbackRates, raised |-> FALSE]

\* The response carries a rate table the success branch returns.
Succeeded(response) ==
    response.kind = "json" /\ response.result = "success" /\ response.has_rates

\* The log entries of n requests made at time t that got response.
Fetched(n, t, response) ==
    [i \in 1..n |->
        [at |-> t, ok |-> Succeeded(response),
         rates |-> IF Succeeded(response) THEN response.rates ELSE NoRates]]

\* A call through the cache: the stored table while it is younger than ttl,
\* otherwise the body is run and its return value stored.
CachedRates_noTtl(cache, t, response) ==
    LET r == get_exchange_rates(response)
    IN [table |-> r.table,
        cache |-> IF r.raised THEN cache
                  ELSE [set |-> TRUE, table |-> r.table, at |-> t],
        fetched |-> 1, raised |-> r.raised]

CachedRates(cache, t, response) ==
    IF cache.set /\ t < cache.at + ttl
    THEN [table |-> cache.table, cache |-> cache, fetched |-> 0, raised |-> FALSE]
    ELSE LET r == get_exchange_rates(response)
         IN [table |-> r.table,
             cache |-> IF r.raised THEN cache
                       ELSE [set |-> TRUE, table |-> r.table, at |-> t],
             fetched |-> 1, raised |-> r.raised]

LiveRatesA ==
    ("USD" :> 100) @@ ("EUR" :> 92) @@ ("GBP" :> 79) @@ ("JPY" :> 15000) @@
    ("AUD" :> 150)

LiveRatesB == LiveRatesA @@ ("CAD" :> 90) @@ ("EGP" :> 4810)

Responses ==
    {[kind |-> "network_error", result |-> "missing", has_rates |-> FALSE, rates |-> NoRates],
     [kind |-> "bad_json", result |-> "missing", has_rates |-> FALSE, rates |-> NoRates],
     [kind |-> "json", result |-> "missing", has_rates |-> FALSE, rates |-> NoRates],
     [kind |-> "json", result |-> "error", has_rates |-> FALSE, rates |-> NoRates],
     [kind |-> "json", result |-> "success", has_rates |-> FALSE, rates |-> NoRates],
     [kind |-> "json", result |-> "success", has_rates |-> TRUE, rates |-> LiveRatesA],
     [kind |-> "json", result |-> "success", has_rates |-> TRUE, rates |-> LiveRatesB]}

\* The keys of the currencies dict (lines 319-327).
currencies == {"USD", "EUR", "GBP", "JPY", "CAD", "AUD", "EGP"}

\* ------------------------------------------------------------------------
\* The form (lines 379-519).  Float fields are in tenths.
\* ------------------------------------------------------------------------

\* The widgets in the order the script creates them.
WidgetOrder ==
    <<"mileage", "car_age", "horsepower", "engine_displacement",
      "fuel_tank_volume", "city_fuel_economy", "highway_fuel_economy",
      "daysonmarket", "owner_count", "savings_amount", "seller_rating",
      "back_legroom", "front_legroom", "height", "length", "wheelbase",
      "width", "maximum_seating", "body_type", "engine_cylinders",
      "engine_type", "fuel_type", "fleet", "frame_damaged",
      "franchise_dealer", "has_accidents", "isCab", "is_new", "salvage",
      "theft_title", "listing_color", "transmission", "wheel_system">>

\* The condition under which the script reports st.error for a number input
\* and clears valid_inputs; FALSE for the inputs it does not check.
OutOfRange_horsepowerOnly(col_name, n) ==
    CASE col_name = "horsepower" -> n > 1200 \/ n < 10
      [] OTHER -> FALSE

OutOfRange(col_name, n) ==
    CASE col_name = "horsepower" -> n > 1200 \/ n < 10
      [] col_name = "engine_displacement" -> n > 100 \/ n < 1
      [] col_name = "fuel_tank_volume" -> n < 10 \/ n > 1000
      [] col_name = "city_fuel_economy" -> n < 1 \/ n > 150
      [] col_name = "highway_fuel_economy" -> n < 1 \/ n > 150
      [] col_name = "daysonmarket" -> n < 0
      [] col_name = "owner_count" -> n > 10 \/ n < 0
      [] col_name = "savings_amount" -> n < 0
      [] col_name = "seller_rating" -> n < 0 \/ n > 50
      [] OTHER -> FALSE

\* The st.warning / st.info an in-range value draws: "warning", "info" or
\* "none".
Advice(col_name, n) ==
    CASE col_name = "mileage" ->
            IF n > 300000 THEN "warning" ELSE IF n < 1000 THEN "info" ELSE "none"
      [] col_name = "car_age" ->
            IF n > 30 THEN "warning" ELSE IF n < 1 THEN "info" ELSE "none"
      [] col_name = "horsepower" ->
            IF n > 600 THEN "warning" ELSE IF n < 50 THEN "info" ELSE "none"
      [] col_name = "engine_displacement" ->
            IF n > 60 THEN "warning" ELSE IF n < 10 THEN "info" ELSE "none"
      [] OTHER -> "none"

\* min_value, max_value and value of each st.number_input; has_max is FALSE
\* where no max_value is given.
number_input ==
    [c \in {"mileage", "car_age", "horsepower", "engine_displacement",
            "fuel_tank_volume", "city_fuel_economy", "highway_fuel_economy",
            "daysonmarket", "owner_count", "savings_amount", "seller_rating",
            "back_legroom", "front_legroom", "height", "length", "wheelbase",
            "width", "maximum_seating"} |->
        CASE c = "mileage" -> [min |-> 0, has_max |-> FALSE, max |-> 0, value |-> 50000]
          [] c = "car_age" -> [min |-> 0, has_max |-> TRUE, max |-> 100, value |-> 5]
          [] c = "horsepower" -> [min |-> 10, has_max |-> TRUE, max |-> 1200, value |-> 200]
          [] c = "engine_displacement" -> [min |-> 1, has_max |-> TRUE, max |-> 100, value |-> 25]
          [] c = "fuel_tank_volume" -> [min |-> 10, has_max |-> TRUE, max |-> 1000, value |-> 150]
          [] c = "city_fuel_economy" -> [min |-> 1, has_max |-> TRUE, max |-> 150, value |-> 20]
          [] c = "highway_fuel_economy" -> [min |-> 1, has_max |-> TRUE, max |-> 150, value |-> 30]
          [] c = "daysonmarket" -> [min |-> 0, has_max |-> FALSE, max |-> 0, value |-> 30]
          [] c = "owner_count" -> [min |-> 0, has_max |-> TRUE, max |-> 10, value |-> 1]
          [] c = "savings_amount" -> [min |-> 0, has_max |-> FALSE, max |-> 0, value |-> 0]
          [] c = "seller_rating" -> [min |-> 0, has_max |-> TRUE, max |-> 50, value |-> 40]
          [] c = "back_legroom" -> [min |-> 100, has_max |-> TRUE, max |-> 600, value |-> 350]
          [] c = "front_legroom" -> [min |-> 200, has_max |-> TRUE, max |-> 700, value |-> 400]
          [] c = "height" -> [min |-> 300, has_max |-> TRUE, max |-> 1200, value |-> 600]
          [] c = "length" -> [min |-> 800, has_max |-> TRUE, max |-> 3000, value |-> 1800]
          [] c = "wheelbase" -> [min |-> 500, has_max |-> TRUE, max |-> 2000, value |-> 1000]
          [] c = "width" -> [min |-> 400, has_max |-> TRUE, max |-> 1200, value |-> 700]
          [] c = "maximum_seating" -> [min |-> 1, has_max |-> TRUE, max |-> 15, value |-> 5]]

\* bool_options_map_display
bool_options_map_display == ("No" :> 0) @@ ("Yes" :> 1)

Msg(level, id, about, payload) ==
    [level |-> level, id |-> id, about |-> about, payload |-> payload]

\* What one widget adds: its messages, its collected value, and whether it
\* clears valid_inputs.  held is what the widget returns.
CollectOne(col_name, held) ==
    IF col_name \in DOMAIN number_input
    THEN [value |-> Num(held.n),
          invalid |-> OutOfRange(col_name, held.n),
          msgs |-> IF OutOfRange(col_name, held.n)
                   THEN <<Msg("error", "range", col_name, <<>>)>>
                   ELSE IF Advice(col_name, held.n) # "none"
                   THEN <<Msg(Advice(col_name, held.n), "advice", col_name, <<>>)>>
                   ELSE <<>>]
    ELSE IF col_name \in boolean_flags
    THEN [value |-> Num(bool_options_map_display[held.s]),
          invalid |-> FALSE, msgs |-> <<>>]
    ELSE IF col_name = "transmission"
    THEN [value |-> Str(OriginalTransValue(held.s)),
          invalid |-> FALSE, msgs |-> <<>>]
    ELSE [value |-> held, invalid |-> FALSE, msgs |-> <<>>]

\* Lines 380-519: the widgets whose column is in the schema are created in
\* the order of the script and their values collected; acc is
\* [values, valid, msgs].
RECURSIVE CollectFrom(_, _, _, _)
CollectFrom(i, widgets, form, acc) ==
    IF i > Len(widgets) THEN acc
    ELSE LET c == widgets[i]
             one == CollectOne(c, form[c])
         IN CollectFrom(i + 1, widgets, form,
                [values |-> acc.values @@ (c :> one.value),
                 valid |-> acc.valid /\ ~one.invalid,
                 msgs |-> acc.msgs \o one.msgs])

Collect_noFlags(cols, form) ==
    CollectFrom(1,
                SelectSeq(WidgetOrder,
                          LAMBDA c : c \in SeqRange(cols) \ boolean_flags),
                form, [values |-> <<>>, valid |-> TRUE, msgs |-> <<>>])

Collect(cols, form) ==
    CollectFrom(1, SelectSeq(WidgetOrder, LAMBDA c : c \in SeqRange(cols)),
                form, [values |-> <<>>, valid |-> TRUE, msgs |-> <<>>])

\* ------------------------------------------------------------------------
\* The prediction block (lines 555-626).
\* ------------------------------------------------------------------------

FloatInputs ==
    {"engine_displacement", "fuel_tank_volume", "seller_rating",
     "back_legroom", "front_legroom", "height", "length", "wheelbase", "width"}

\* input_df.dtypes, per column.
Dtypes(frame) ==
    [i \in 1..Len(frame) |->
        IF frame[i].val.k = "str" THEN "object"
        ELSE IF frame[i].val.k = "nan" \/ frame[i].col \in FloatInputs
        THEN "float64" ELSE "int64"]

\* round(prediction[0], 2): thousandths of a dollar to cents, ties to even.
Round2(mills) ==
    LET q == mills \div 10
        r == mills % 10
    IN IF r > 5 \/ (r = 5 /\ q % 2 = 1) THEN q + 1 ELSE q

\* get_exchange_rates().get(selected_currency, 1.0), in hundredths.
RateOf_zeroDefault(table, currency) ==
    IF currency \in DOMAIN table THEN table[currency] ELSE 0

RateOf(table, currency) ==
    IF currency \in DOMAIN table THEN table[currency] ELSE 100

\* The price text (lines 574-578).  final_price arrives in 1/10000 of the
\* currency unit (cents times a rate in hundredths).

\* The ',' option of the format mini-language: a comma before every group
\* of three digits counted from the right.
RECURSIVE Grouped(_)
Grouped(ds) ==
    IF Len(ds) <= 3 THEN ds
    ELSE Grouped(SubSeq(ds, 1, Len(ds) - 3)) \o <<",">>
         \o SubSeq(ds, Len(ds) - 2, Len(ds))

Abs(n) == IF n < 0 THEN 0 - n ELSE n

\* f"{int(final_price):,}": int() drops the fraction (towards zero).
FormatInt(price) ==
    LET whole == Abs(price) \div 10000
    IN (IF price < 0 /\ whole > 0 THEN <<"-">> ELSE <<>>)
       \o Grouped(DecimalDigits(whole))

\* f"{final_price:,.2f}": rounded to two decimals (a tie goes to the even
\* neighbour), always two digits after the point.
FormatFixed2(price) ==
    LET q == Abs(price) \div 100
        r == Abs(price) % 100
        cents == IF r > 50 \/ (r = 50 /\ q % 2 = 1) THEN q + 1 ELSE q
    IN (IF price < 0 THEN <<"-">> ELSE <<>>)
       \o Grouped(DecimalDigits(cents \div 100))
       \o <<".", DigitChar((cents % 100) \div 10), DigitChar(cents % 10)>>

FormatPrice_noYenBranch(price, currency) == FormatFixed2(price)

FormatPrice(price, currency) ==
    IF currency = "JPY" THEN FormatInt(price) ELSE FormatFixed2(price)

\* The four st.error calls of the except branch; input_df exists once the
\* frame has been built.
FailureReport(cols, frame) ==
    <<Msg("error", "prediction_failed", "", <<>>),
      Msg("error", "expected_columns", "", cols),
      Msg("error", "actual_columns", "", Keys(frame)),
      Msg("error", "dtypes", "", Dtypes(frame))>>

\* The try/except of lines 555-626 on the assembled dict.  env gives what
\* the outside does in this run: transform and predict are "ok" or "raise",
\* prediction is the model's answer, response the remote's.
PredictBlock_noExcept(cols, data, cache, t, currency, env) ==
    LET frame == Recoerce(DataFrame(data, cols))
        usd == Round2(env.prediction)
        rc == CachedRates(cache, t, env.response)
        base == [frame |-> frame, msgs |-> <<>>, transform |-> env.transform,
                 predict |-> "not_called", ncalls |-> [transform |-> 1, predict |-> 0, fetch |-> 0],
                 usd |-> 0, price |-> 0, shown |-> FALSE, cache |-> cache,
                 raised |-> FALSE]
    IN IF env.transform = "raise"
       THEN [base EXCEPT !.raised = TRUE]
       ELSE IF env.predict = "raise"
       THEN [base EXCEPT !.predict = "raise", !.ncalls.predict = 1, !.raised = TRUE]
       ELSE IF rc.raised
       THEN [base EXCEPT !.predict = "ok", !.ncalls.predict = 1,
                         !.ncalls.fetch = rc.fetched, !.usd = usd, !.raised = TRUE]
       ELSE [base EXCEPT !.predict = "ok", !.ncalls.predict = 1,
                         !.ncalls.fetch = rc.fetched, !.usd = usd,
                         !.price = usd * RateOf(rc.table, currency),
                         !.shown = TRUE, !.cache = rc.cache]

\* The body of the try block once the frame is built and with rc what the
\* read of line 573 gives when it is reached.
TryBlock(cols, frame, cache, rc, currency, env) ==
    LET usd == Round2(env.prediction)
        base == [frame |-> frame, msgs |-> <<>>, transform |-> env.transform,
                 predict |-> "not_called", ncalls |-> [transform |-> 1, predict |-> 0, fetch |-> 0],
                 usd |-> 0, price |-> 0, shown |-> FALSE, cache |-> cache,
                 raised |-> FALSE]
    IN IF env.transform = "raise"
       THEN [base EXCEPT !.msgs = FailureReport(cols, frame)]
       ELSE IF env.predict = "raise"
       THEN [base EXCEPT !.predict = "raise", !.ncalls.predict = 1,
                         !.msgs = FailureReport(cols, frame)]
       ELSE IF rc.raised
       THEN [base EXCEPT !.predict = "ok", !.ncalls.predict = 1,
                         !.ncalls.fetch = rc.fetched, !.usd = usd,
                         !.msgs = FailureReport(cols, frame)]
       ELSE [base EXCEPT !.predict = "ok", !.ncalls.predict = 1,
                         !.ncalls.fetch = rc.fetched, !.usd = usd,
                         !.price = usd * RateOf(rc.table, currency),
                         !.shown = TRUE, !.cache = rc.cache]

PredictBlock(cols, data, cache, t, currency, env) ==
    TryBlock(cols, Recoerce(DataFrame(data, cols)), cache,
             CachedRates(cache, t, env.response), currency, env)

NoPredict(cache) ==
    [frame |-> <<>>, msgs |-> <<>>, transform |-> "not_called",
     predict |-> "not_called", ncalls |-> NoCalls, usd |-> 0, price |-> 0,
     shown |-> FALSE, cache |-> cache, raised |-> FALSE]

\* ------------------------------------------------------------------------
\* One run of the script.
\* ------------------------------------------------------------------------

\* load_resources() through st.cache_resource: the body runs once, its
\* return value (a failure included) is kept for every later run.
LoadCached ==
    IF resource_cache
    THEN [model |-> resources.model, preprocessor |-> resources.preprocessor,
          columns |-> resources.columns, cols |-> original_feature_columns,
          errors |-> 0, ran |-> 0]
    ELSE LET r == load_resources(files)
         IN [model |-> r.model, preprocessor |-> r.preprocessor,
             columns |-> r.columns, cols |-> r.cols, errors |-> r.errors,
             ran |-> 1]

\* What the run leaves behind: res from load_resources, rc from the read of
\* the rates at line 349, col from the form, asm from the assembly loop and
\* pb from the try block.
Finished(res, rc, formed, col, predict_btn, asm, pb, form, currency, env) ==
    [res |-> res,
     cache |-> pb.cache,
     table |-> rc.table,
     values |-> col.values,
     valid |-> col.valid,
     enabled |-> formed /\ col.valid,
     data |-> asm.data,
     warned |-> asm.warned,
     frame |-> pb.frame,
     msgs |->
         (IF res.errors > 0 THEN <<Msg("error", "load_failed", "", <<>>)>> ELSE <<>>)
         \o col.msgs
         \o (IF formed /\ ~col.valid THEN <<Msg("error", "gate", "", <<>>)>> ELSE <<>>)
         \o [i \in 1..Len(asm.warned) |-> Msg("warning", "missing", asm.warned[i], <<>>)]
         \o pb.msgs,
     page |->
         {"currency_selector"}
         \cup (IF rc.raised THEN {} ELSE {"about"})
         \cup (IF formed THEN {"form", "predict_button"} ELSE {})
         \cup (IF pb.shown THEN {"price"} ELSE {})
         \cup (IF rc.raised \/ asm.raised \/ pb.raised THEN {} ELSE {"footer"}),
     fetches |-> Fetched(rc.fetched, now, env.response)
                 \o Fetched(pb.ncalls.fetch, now, env.response),
     ncalls |-> [transform |-> pb.ncalls.transform,
                 predict |-> pb.ncalls.predict,
                 fetch |-> rc.fetched + pb.ncalls.fetch],
     run |-> [click |-> IF predict_btn THEN "predict" ELSE "none",
              transform |-> pb.transform, predict |-> pb.predict,
              asked |-> IF rc.fetched = 1 THEN env.response ELSE NotAsked],
     usd |-> pb.usd, price |-> pb.price, shown |-> pb.shown,
     formatted |-> IF pb.shown THEN FormatPrice(pb.price, currency)
                   ELSE <<>>,
     label |-> IF formed /\ "transmission" \in SeqRange(res.cols)
               THEN form["transmission"].s ELSE "",
     crashed |-> rc.raised \/ asm.raised \/ pb.raised]

\* Lines 555-626: the try block runs when the loop has ended normally.
Assembled(res, rc, formed, col, predict_btn, asm, form, currency, env) ==
    Finished(res, rc, formed, col, predict_btn, asm,
             IF predict_btn /\ ~asm.raised
             THEN PredictBlock(res.cols, asm.data, rc.cache, now, currency, env)
             ELSE NoPredict(rc.cache),
             form, currency, env)

\* Lines 524-554: the button is enabled by valid_inputs, and its click
\* starts the assembly loop.
Collected(res, rc, formed, col, predict_btn, form, currency, env) ==
    Assembled(res, rc, formed, col, predict_btn,
              IF predict_btn THEN AssembleLoop(res.cols, col.values)
              ELSE [data |-> <<>>, warned |-> <<>>, raised |-> FALSE],
              form, currency, env)

\* Lines 371-519: the form is drawn, and its widgets are read, when the
\* three artifacts are there.
Gated(res, rc, formed, col, form, currency, click, env) ==
    Collected(res, rc, formed, col, formed /\ col.valid /\ click = "predict",
              form, currency, env)

Formed(res, rc, formed, form, currency, click, env) ==
    Gated(res, rc, formed,
          IF formed THEN Collect(res.cols, form)
          ELSE [values |-> <<>>, valid |-> TRUE, msgs |-> <<>>],
          form, currency, click, env)

\* The script after load_resources (line 57 on) and the read of the rates
\* at line 349.
Loaded(res, rc, form, currency, click, env) ==
    Formed(res, rc, res.model /\ res.preprocessor /\ res.columns /\ ~rc.raised,
           form, currency, click, env)

\* The script from top to bottom with the widgets holding form and currency,
\* the Predict button clicked or not, and env the behaviour of the outside.
\* The result is what the run leaves behind.
Script(form, currency, click, env) ==
    Loaded(LoadCached, CachedRates(rate_cache, now, env.response),
           form, currency, click, env)

\* st.session_state once the sidebar has run: set_theme stores the theme
\* (line 67), the selectbox with key="currency_select" its value (line 334).
\* No other widget of the script is given a key.
SidebarState(currency) ==
    ("theme" :> "dark") @@ ("currency_select" :> currency)

\* The variables after a run that left out behind.
Ran(out, form, currency) ==
    /\ resource_cache' = TRUE
    /\ resources' = [model |-> out.res.model,
                     preprocessor |-> out.res.preprocessor,
                     columns |-> out.res.columns]
    /\ original_feature_columns' = out.res.cols
    /\ load_calls' = load_calls + out.res.ran
    /\ load_errors' = load_errors + out.res.errors
    /\ rate_cache' = out.cache
    /\ fetch_log' = fetch_log \o out.fetches
    /\ form_state' = form
    /\ selected_currency' = currency
    /\ page' = out.page
    /\ messages' = out.msgs
    /\ valid_inputs' = out.valid
    /\ predict_enabled' = out.enabled
    /\ exchange_rates' = out.table
    /\ calls' = out.ncalls
    /\ run' = out.run
    /\ final_price_usd' = out.usd
    /\ final_price' = out.price
    /\ price_shown' = out.shown
    /\ formatted_price' = out.formatted
    /\ session_state' = SidebarState(currency)
    /\ input_values_from_widgets' = out.values
    /\ input_df_data_final' = out.data
    /\ input_df' = out.frame
    /\ warnings' = out.warned
    /\ fault' = out.crashed
    /\ selected_display_trans' = out.label
    /\ original_trans_value' =
          IF out.label = "" THEN "" ELSE OriginalTransValue(out.label)
    /\ UNCHANGED <<files, now, optVars>>

\* ------------------------------------------------------------------------
\* Spec: the interactions.
\* ------------------------------------------------------------------------

MaxTime == 2

\* Schemas the artifact may hold.
AppSchemas ==
    {<<"horsepower", "engine_displacement", "car_age">>,
     <<"body_type", "make_name", "fleet">>,
     <<"transmission", "listing_color">>,
     <<"mileage", "fuel_tank_volume", "city_fuel_economy",
       "highway_fuel_economy", "daysonmarket", "owner_count",
       "savings_amount", "seller_rating", "model_name", "back_legroom",
       "front_legroom", "height", "length", "wheelbase", "width",
       "maximum_seating", "engine_cylinders", "engine_type", "fuel_type",
       "wheel_system", "frame_damaged", "franchise_dealer", "has_accidents",
       "isCab", "is_new", "salvage", "theft_title">>}

FormCols == SeqRange(WidgetOrder)

\* The first option of each selectbox of categorical_widget_map: the lists
\* are sorted, the transmission one is shown through its labels.
sorted_first ==
    [c \in DOMAIN categorical_widget_map |->
        IF c = "transmission" THEN TransGet(Head(sorted(prepared_trans_opts)))
        ELSE Head(sorted(categorical_widget_map[c]))]

\* The same, written out.
first_option ==
    [c \in DOMAIN categorical_widget_map |->
        CASE c = "body_type" -> "Convertible"
          [] c = "engine_cylinders" -> "H4"
          [] c = "engine_type" -> "H4"
          [] c = "fuel_type" -> "Biodiesel"
          [] c = "listing_color" -> "BLACK"
          [] c = "transmission" -> "Automatic"
          [] c = "wheel_system" -> "4WD"]

\* The written-out first options are the heads of the sorted lists.
FirstOptionsAreSortedHeads == pc = "start" => first_option = sorted_first

\* What a widget holds in a new session: value= of a number input, the
\* first option of a selectbox.
WidgetDefault(col_name) ==
    IF col_name \in DOMAIN number_input THEN Num(number_input[col_name].value)
    ELSE IF col_name \in boolean_flags THEN Str("No")
    ELSE Str(first_option[col_name])

\* What a user may put into a widget.  A number input is taken to return
\* whatever was entered: the script itself re-checks the range.
UserValues(col_name) ==
    CASE col_name = "horsepower" -> {Num(5), Num(200), Num(700)}
      [] col_name = "engine_displacement" -> {Num(25), Num(101)}
      [] col_name = "car_age" -> {Num(5), Num(150)}
      [] col_name = "fleet" -> {Str("No"), Str("Yes")}
      [] col_name = "body_type" -> {Str("Convertible"), Str("Sedan")}
      [] col_name = "listing_color" -> {Str("BLACK"), Str("UNKNOWN")}
      [] col_name = "transmission" ->
            {Str("Automatic"), Str("Manual")}
      [] OTHER -> {WidgetDefault(col_name)}

\* The currencies the modelled user picks among.
CurrencyChoices == {"USD", "JPY", "CAD"}

FileStates == {"ok", "missing", "corrupt"}

\* The model's answers, in thousandths of a dollar.
Predictions == {1234568, 100004}

\* What the preprocessor and the model may do in a run: transform raises
\* (predict is then not reached), predict raises, or the model answers.
Outside ==
    {[transform |-> "raise", predict |-> "ok", prediction |-> 0],
     [transform |-> "ok", predict |-> "raise", prediction |-> 0]}
    \cup {[transform |-> "ok", predict |-> "ok", prediction |-> m] :
             m \in Predictions}

\* What the remote may answer in a run; it is asked only when the cached
\* table has expired.
Remote ==
    IF rate_cache.set /\ now < rate_cache.at + ttl
    THEN {CHOOSE r \in Responses : r.kind = "network_error"}
    ELSE Responses

QuietEnv(response) ==
    [response |-> response, transform |-> "ok", predict |-> "ok", prediction |-> 0]

\* The artifacts on disk: all three readable, holding any of the schemas,
\* or one of them missing or unreadable.
FilesOnDisk ==
    {f \in [model : FileStates, preprocessor : FileStates,
            columns : FileStates, cols : AppSchemas] :
        \/ f.model = "ok" /\ f.preprocessor = "ok" /\ f.columns = "ok"
        \/ /\ Cardinality({a \in {"model", "preprocessor", "columns"} :
                              f[a] # "ok"}) = 1
           /\ f.cols = <<"horsepower", "engine_displacement", "car_age">>}

Init ==
    /\ files \in FilesOnDisk
    /\ resource_cache = FALSE
    /\ resources = [model |-> FALSE, preprocessor |-> FALSE, columns |-> FALSE]
    /\ original_feature_columns = <<>>
    /\ load_calls = 0
    /\ load_errors = 0
    /\ rate_cache = EmptyRateCache
    /\ fetch_log = <<>>
    /\ now = 0
    /\ form_state = [c \in FormCols |-> WidgetDefault(c)]
    /\ selected_currency = "USD"
    /\ page = {}
    /\ messages = <<>>
    /\ valid_inputs = TRUE
    /\ predict_enabled = FALSE
    /\ exchange_rates = NoRates
    /\ calls = NoCalls
    /\ run = NoRun
    /\ final_price_usd = 0
    /\ final_price = 0
    /\ price_shown = FALSE
    /\ formatted_price = <<>>
    /\ session_state = <<>>
    /\ OptIdle
    /\ input_values_from_widgets = <<>>
    /\ input_df_data_final = <<>>
    /\ input_df = <<>>
    /\ warnings = <<>>
    /\ fault = FALSE
    /\ selected_display_trans = ""
    /\ original_trans_value = ""
    /\ pc = "init"

\* A browser opens the page: a new session, every widget at its default.
OpenPage ==
    /\ pc # "rerun"
    /\ \E response \in Remote :
       \E out \in {Script([c \in FormCols |-> WidgetDefault(c)], "USD", "none",
                          QuietEnv(response))} :
          Ran(out, [c \in FormCols |-> WidgetDefault(c)], "USD")
    /\ pc' = "ran"

\* The user changes one form widget; the script re-runs.
ChangeInput ==
    /\ "form" \in page
    /\ \E c \in FormCols \cap SeqRange(original_feature_columns) :
       \E v \in UserValues(c) \ {form_state[c]} :
       \E response \in Remote :
       \E out \in {Script([form_state EXCEPT ![c] = v], selected_currency,
                          "none", QuietEnv(response))} :
          Ran(out, [form_state EXCEPT ![c] = v], selected_currency)
    /\ pc' = "ran"

\* The user picks another currency; the script re-runs.
ChangeCurrency ==
    /\ pc # "rerun"
    /\ "currency_selector" \in page
    /\ \E c \in CurrencyChoices \ {selected_currency} :
       \E response \in Remote :
       \E out \in {Script(form_state, c, "none", QuietEnv(response))} :
          Ran(out, form_state, c)
    /\ pc' = "ran"

\* The user clicks Predict, which the last run rendered enabled.
ClickPredict ==
    /\ predict_enabled
    /\ \E response \in Remote :
       \E outside \in Outside :
       \E out \in {Script(form_state, selected_currency, "predict",
                          [response |-> response,
                           transform |-> outside.transform,
                           predict |-> outside.predict,
                           prediction |-> outside.prediction])} :
          Ran(out, form_state, selected_currency)
    /\ pc' = "ran"

\* Half a freshness window passes.
Tick ==
    /\ pc # "rerun"
    /\ now < MaxTime * (ttl \div 2)
    /\ now' = now + (ttl \div 2)
    /\ UNCHANGED <<files, resource_cache, resources, load_calls, load_errors,
                   rate_cache, fetch_log, form_state, selected_currency, page,
                   messages,
                   valid_inputs, predict_enabled, exchange_rates, calls, run,
                   final_price_usd, final_price, price_shown,
                   formatted_price, session_state, optVars>>
    /\ UNCHANGED asmVars

\* The keys the Reset handler deletes (lines 374-376).
ResetKeys(state) == {key \in DOMAIN state : key \notin {"theme"}}

\* The user clicks Reset (rendered under the gate of line 371).  The run
\* this click starts goes from the top to line 377: cached resources, the
\* sidebar with its read of the rate table, then the handler, which deletes
\* the keys and ends the run with st.rerun().  No form widget is reached.
Reset ==
    /\ "form" \in page
    /\ \E response \in Remote :
          LET rc == CachedRates(rate_cache, now, response)
              state == SidebarState(selected_currency)
          IN /\ rate_cache' = rc.cache
             /\ fetch_log' = fetch_log \o Fetched(rc.fetched, now, response)
             /\ exchange_rates' = rc.table
             /\ calls' = [NoCalls EXCEPT !.fetch = rc.fetched]
             /\ run' = [NoRun EXCEPT
                          !.click = "reset",
                          !.asked = IF rc.fetched = 1 THEN response ELSE NotAsked]
             /\ session_state' =
                   [key \in DOMAIN state \ ResetKeys(state) |-> state[key]]
    /\ selected_currency' = "USD"
    /\ page' = {"currency_selector", "about"}
    /\ messages' = <<>>
    /\ valid_inputs' = TRUE
    /\ predict_enabled' = FALSE
    /\ final_price_usd' = 0
    /\ final_price' = 0
    /\ price_shown' = FALSE
    /\ formatted_price' = <<>>
    /\ input_values_from_widgets' = <<>>
    /\ input_df_data_final' = <<>>
    /\ input_df' = <<>>
    /\ warnings' = <<>>
    /\ fault' = FALSE
    /\ selected_display_trans' = ""
    /\ original_trans_value' = ""
    /\ pc' = "rerun"
    /\ UNCHANGED <<files, resource_cache, resources, original_feature_columns,
                   load_calls, load_errors, now, form_state, optVars>>

\* The run st.rerun() asked for.  The currency selectbox, its key deleted,
\* is back at its first option.  A form widget has no key and nothing of it
\* was deleted; whether the framework still hands the script the value the
\* browser holds, or drops the state of the widgets the interrupted run did
\* not reach, is not decided by the script: both are possible.
Rerun ==
    /\ pc = "rerun"
    /\ \E form \in {form_state, [c \in FormCols |-> WidgetDefault(c)]} :
       \E response \in Remote :
       \E out \in {Script(form, selected_currency, "none", QuietEnv(response))} :
          Ran(out, form, selected_currency)
    /\ pc' = "reset"

Next ==
    \/ OpenPage
    \/ ChangeInput
    \/ ChangeCurrency
    \/ ClickPredict
    \/ Tick
    \/ Reset
    \/ Rerun

Spec == Init /\ [][Next]_vars

\* ------------------------------------------------------------------------
\* Claims settled under Spec.
\* ------------------------------------------------------------------------

InSchema(col_name) == col_name \in SeqRange(original_feature_columns)

Reported(level, id, about) ==
    Cardinality({i \in 1..Len(messages) :
        /\ messages[i].level = level
        /\ messages[i].id = id
        /\ messages[i].about = about})

\* Outside the min_value..max_value the number input declares.
OutsideDeclared(col_name, n) ==
    \/ n < number_input[col_name].min
    \/ number_input[col_name].has_max /\ n > number_input[col_name].max

\* The number inputs the script follows with a range check.
CheckedInputs ==
    {"horsepower", "engine_displacement", "fuel_tank_volume",
     "city_fuel_economy", "highway_fuel_economy", "daysonmarket",
     "owner_count", "savings_amount", "seller_rating"}

C7_PredictionFailureCaught ==
    run.transform = "raise" \/ run.predict = "raise" =>
        /\ run.click = "predict"
        /\ Reported("error", "prediction_failed", "") = 1
        /\ \E i \in 1..Len(messages) :
              /\ messages[i].id = "expected_columns"
              /\ messages[i].payload = original_feature_columns
        /\ \E i \in 1..Len(messages) :
              /\ messages[i].id = "actual_columns"
              /\ messages[i].payload = Keys(input_df)
        /\ \E i \in 1..Len(messages) :
              /\ messages[i].id = "dtypes"
              /\ Len(messages[i].payload) = Len(input_df)
        /\ ~price_shown
        /\ "price" \notin page
        /\ calls.transform = 1
        /\ calls.predict = IF run.transform = "raise" THEN 0 ELSE 1
        /\ ~fault
        /\ "footer" \in page

C7_Witness ==
    /\ run.click = "predict"
    /\ run.transform = "raise"
    /\ calls.predict = 0
    /\ Reported("error", "prediction_failed", "") = 1
    /\ ~fault

\* C8: once a load has failed, the three globals are None together, the
\* form and the Predict button are never rendered and transform and predict
\* never called, the rest of the page renders, and the body of
\* load_resources ran, and reported, exactly once.
LoadFails ==
    files.model # "ok" \/ files.preprocessor # "ok" \/ files.columns # "ok"

FetchFailed ==
    /\ run.asked.kind # "not_asked"
    /\ \/ run.asked.kind # "json"
       \/ run.asked.result # "success"
       \/ ~run.asked.has_rates

C9_FallbackOnFailure ==
    FetchFailed =>
        /\ ~fault
        /\ "about" \in page
        /\ DOMAIN exchange_rates = currencies
        /\ \A c \in currencies : exchange_rates[c] > 0
        /\ exchange_rates = FallbackRates

C9_Witness ==
    /\ run.asked.kind = "bad_json"
    /\ exchange_rates = FallbackRates
    /\ ~fault

\* C10: the shown value is the USD price times the table's rate for the
\* selected currency, and the USD price itself (rate 1.0) when the table
\* has no such currency; an absent currency is no error.
C10_Conversion ==
    run.click = "predict" /\ run.predict = "ok" =>
        /\ price_shown
        /\ ~fault
        /\ final_price =
              IF selected_currency \in DOMAIN exchange_rates
              THEN final_price_usd * exchange_rates[selected_currency]
              ELSE final_price_usd * 100

C10_Witness ==
    /\ price_shown
    /\ selected_currency = "CAD"
    /\ "CAD" \notin DOMAIN exchange_rates
    /\ final_price_usd > 0
    /\ final_price = final_price_usd * 100

\* The text without its grouping commas.
StripCommas(cs) == SelectSeq(cs, LAMBDA c : c # ",")

\* Digits in groups of three counted from the right, a comma between groups.
ThousandsGrouped(cs) ==
    /\ Len(cs) > 0
    /\ Len(cs) % 4 # 0
    /\ \A i \in 1..Len(cs) :
          IF (Len(cs) - i + 1) % 4 = 0 THEN cs[i] = "," ELSE cs[i] \in Digits

\* C11: a displayed JPY price is a thousands-grouped integer with no decimal
\* places, the whole part of the converted price; the price in any other
\* currency is thousands-grouped with exactly two decimal places, the
\* converted price to the nearest cent.
C11_DisplayFormat ==
    price_shown =>
        LET n == Len(formatted_price)
        IN IF selected_currency = "JPY"
           THEN /\ ThousandsGrouped(formatted_price)
                /\ ParseDigits(StripCommas(formatted_price), 0)
                      = final_price \div 10000
           ELSE /\ n >= 4
                /\ formatted_price[n - 2] = "."
                /\ formatted_price[n - 1] \in Digits
                /\ formatted_price[n] \in Digits
                /\ ThousandsGrouped(SubSeq(formatted_price, 1, n - 3))
                /\ LET shown ==
                          100 * ParseDigits(StripCommas(
                                    SubSeq(formatted_price, 1, n - 3)), 0)
                          + 10 * DigitValue(formatted_price[n - 1])
                          + DigitValue(formatted_price[n])
                   IN /\ 100 * shown - final_price <= 50
                      /\ final_price - 100 * shown <= 50

\* Price 100.00 at a JPY rate of 150.00 is shown as 15,000.
C11_Witness ==
    /\ price_shown
    /\ selected_currency = "JPY"
    /\ final_price_usd = 10000
    /\ exchange_rates["JPY"] = 15000
    /\ formatted_price = <<"1", "5", ",", "0", "0", "0">>

\* Price 100.00 at a rate of 0.90 is shown as 90.00.
C11_TwoDecimalsReached ==
    /\ price_shown
    /\ selected_currency = "CAD"
    /\ final_price_usd = 10000
    /\ formatted_price = <<"9", "0", ".", "0", "0">>

\* C12 (as claimed): once Reset has run, every session-state entry other
\* than the theme has been removed and the theme is untouched, and after the
\* rerun every form field and the currency selection are at their defaults.
C12_Claimed ==
    /\ pc = "rerun" =>
          /\ DOMAIN session_state = {"theme"}
          /\ session_state["theme"] = "dark"
    /\ pc = "reset" =>
          /\ selected_currency = "USD"
          /\ "theme" \in DOMAIN session_state
          /\ session_state["theme"] = "dark"
          /\ \A c \in FormCols : form_state[c] = WidgetDefault(c)

\* What the handler does achieve: the session state keeps only the theme,
\* and the currency selection is back at its default after the rerun.
C12_SessionStateCleared ==
    /\ pc = "rerun" =>
          /\ DOMAIN session_state = {"theme"}
          /\ session_state["theme"] = "dark"
    /\ pc = "reset" =>
          /\ selected_currency = "USD"
          /\ session_state = SidebarState("USD")

C14_NoModelCallWhenInvalid ==
    ~valid_inputs =>
        /\ calls.transform = 0
        /\ calls.predict = 0
        /\ run.click = "none"

\* A run with a validation failure that fetched the rates.
C14_FetchWhileInvalid ==
    /\ ~valid_inputs
    /\ Reported("error", "gate", "") = 1
    /\ calls.fetch = 1

\* The successful fetches so far.
Successes == {i \in 1..Len(fetch_log) : fetch_log[i].ok}

\* table is what a response's rates turn into: every rate the response gave,
\* as given, and beyond those at most the EGP entry.
BuiltFrom(table, rates) ==
    /\ DOMAIN rates \subseteq DOMAIN table
    /\ \A c \in DOMAIN rates : table[c] = rates[c]
    /\ DOMAIN table \subseteq DOMAIN rates \cup {"EGP"}

LastFetchedOrFallback(table) ==
    \/ table = FallbackRates
    \/ /\ Successes # {}
       /\ LET last == CHOOSE i \in Successes : \A j \in Successes : j <= i
          IN BuiltFrom(table, fetch_log[last].rates)

\* C15: two fetches of the remote source are at least ttl seconds apart, and
\* the table a read returns (the one read at line 349 and the one the cache
\* holds for the next read) is the one built from the last successful fetch
\* or the fallback table.
C15_OncePerWindow ==
    /\ \A i \in 1..Len(fetch_log) : \A j \in 1..Len(fetch_log) :
          i < j => fetch_log[j].at >= fetch_log[i].at + ttl
    /\ exchange_rates # NoRates => LastFetchedOrFallback(exchange_rates)
    /\ rate_cache.set => LastFetchedOrFallback(rate_cache.table)

\* Two windows, a successful fetch in each, several reads in between, and
\* the read after the second fetch returns the newer table.
C15_Witness ==
    /\ Len(fetch_log) = 2
    /\ fetch_log[1].ok
    /\ fetch_log[2].ok
    /\ fetch_log[1].rates # fetch_log[2].rates
    /\ calls.fetch = 1
    /\ BuiltFrom(exchange_rates, fetch_log[2].rates)

\* The run asked the remote source and got a response indicating success.
FetchSucceeded == run.asked # NotAsked /\ Succeeded(run.asked)

\* C16 (as claimed): after a successful live response the returned table has
\* a rate for every supported currency, an injected one where the response
\* had none, and every rate the response gave is kept as given.
C16_Claimed ==
    FetchSucceeded =>
        \A c \in currencies :
            /\ c \in DOMAIN exchange_rates
            /\ c \in DOMAIN run.asked.rates =>
                  exchange_rates[c] = run.asked.rates[c]

\* What lines 45-46 do ensure: EGP is never missing (50 when the response
\* had none), every rate of the response is kept, nothing else is added.
C16_OnlyEGPInjected ==
    FetchSucceeded =>
        /\ "EGP" \in DOMAIN exchange_rates
        /\ "EGP" \notin DOMAIN run.asked.rates => exchange_rates["EGP"] = 5000
        /\ BuiltFrom(exchange_rates, run.asked.rates)

\* A successful response without CAD and without EGP has been turned into a
\* table with EGP and without CAD.
C16_MissingLeftMissing ==
    /\ FetchSucceeded
    /\ "CAD" \notin DOMAIN run.asked.rates
    /\ "EGP" \notin DOMAIN run.asked.rates
    /\ "CAD" \notin DOMAIN exchange_rates
    /\ exchange_rates["EGP"] = 5000

\* The columns the script has a widget for: the 18 number inputs, the 7
\* selectboxes of categorical_widget_map and the 8 flags.
Known ==
    DOMAIN number_input \cup DOMAIN categorical_widget_map \cup boolean_flags

\* C17: when the assembly runs, every schema column the script has a widget
\* for has been collected in that run; a column without collected value is
\* one the script does not know, it is neither categorical nor a flag, its
\* entry is NaN and a warning names it; no entry was filled by the
\* "Unknown" branch.
C17_KnownColumnsCollected ==
    run.click = "predict" =>
        /\ Cardinality(Known) = 33
        /\ \A c \in SeqRange(original_feature_columns) \cap Known :
              c \in DOMAIN input_values_from_widgets
        /\ \A c \in Uncollected :
              /\ c \notin Known
              /\ c \notin DOMAIN categorical_widget_map
              /\ c \notin boolean_flags
              /\ DictGet(input_df_data_final, c, Str("absent")) = NaN
              /\ Count(warnings, c) = 1
        /\ \A i \in 1..Len(input_df_data_final) :
              input_df_data_final[i].val = Str("Unknown") =>
                  input_df_data_final[i].col \in DOMAIN input_values_from_widgets
        /\ Len(warnings) = Cardinality(Uncollected)

\* A prediction on a schema with selectboxes, flags, number inputs and one
\* column the script does not know.
C17_Witness ==
    /\ run.click = "predict"
    /\ Uncollected = {"model_name"}
    /\ warnings = <<"model_name">>
    /\ {"wheel_system", "theft_title", "maximum_seating"}
          \subseteq DOMAIN input_values_from_widgets
    /\ DictGet(input_df_data_final, "model_name", Str("absent")) = NaN

====
